---------------------------- MODULE Spec2Model ----------------------------
(***************************************************************************)
(* BEKK multivariate GARCH: parameter codec, stationary covariance solve,  *)
(* simulation recursion and likelihood evaluation of src/python/BEKK.py,   *)
(* and the simulator of src/bekk/generate_data.py.                         *)
(*                                                                         *)
(* Numbers.  numpy's float64 values are modelled as                        *)
(*      <<n, d, e>>   standing for  (n / d) * 10^e,   d > 0,               *)
(* kept in lowest terms with the factors of ten moved into e, so that the  *)
(* program's constants 1e10, 1e20, 1e-8, 1e-3 and 1e3 are written as they  *)
(* are in the source.  d = 0 marks the non-finite values: <<1,0,0>> is     *)
(* +inf, <<-1,0,0>> is -inf and <<0,0,0>> is NaN.  Arithmetic is exact     *)
(* while the result is representable; a result beyond the float64 range    *)
(* becomes an infinity, inf - inf and 0 * inf become NaN, and an addend    *)
(* more than AlignGap decimal orders below the other is rounded away.      *)
(* Arrays are 1-based sequences: row i, column j of the source (0-based)   *)
(* is M[i+1][j+1], and H[t] of the source is H[t+1].                       *)
(***************************************************************************)
EXTENDS Integers, Sequences, FiniteSets, TLC

\* ------------------------------------------------------------------ bounds
\* Largest dimension n of the explored inputs.
MaxN == 2
\* Longest innovation series T of the explored inputs.
MaxT == 3
\* Decimal digits of the mantissa the scalar results of the likelihood are
\* chopped to; an addend that many decimal orders smaller than the other is
\* absorbed.
AlignGap == 4
\* Largest and smallest decimal exponent of a finite float64 (1.8e308, 5e-324).
FloatMaxExp == 308
FloatMinExp == 324

\* ----------------------------------------------------------------- numbers
NaN == <<0, 0, 0>>
PInf == <<1, 0, 0>>
NInf == <<-1, 0, 0>>
Zero == <<0, 1, 0>>

Abs(k) == IF k < 0 THEN -k ELSE k
Sgn(k) == IF k < 0 THEN -1 ELSE IF k > 0 THEN 1 ELSE 0

RECURSIVE GCD(_, _)
GCD(a, b) == IF b = 0 THEN a ELSE GCD(b, a % b)

\* Number of factors of ten of k # 0.
RECURSIVE Tens(_)
Tens(k) == IF k % 10 = 0 THEN 1 + Tens(k \div 10) ELSE 0

\* Number of decimal digits of k > 0.
RECURSIVE Digits(_)
Digits(k) == IF k < 10 THEN 1 ELSE 1 + Digits(k \div 10)

IsNaN(x) == x = NaN
IsInf(x) == x = PInf \/ x = NInf
IsFinite(x) == x[2] > 0
Sign(x) == Sgn(x[1])

\* The float64 nearest to (n / d) * 10^e, d > 0: lowest terms, tens in the
\* exponent, overflow to an infinity, underflow to zero.
Norm(n, d, e) ==
    IF n = 0 THEN Zero
    ELSE LET g == GCD(Abs(n), d)
             n1 == Abs(n) \div g
             d1 == d \div g
             tn == Tens(n1)
             td == Tens(d1)
             n2 == n1 \div (10 ^ tn)
             d2 == d1 \div (10 ^ td)
             e2 == e + tn - td
             mag == e2 + Digits(n2) - Digits(d2)
         IN  IF mag > FloatMaxExp THEN <<Sgn(n), 0, 0>>
             ELSE IF mag < -FloatMinExp THEN Zero
             ELSE <<Sgn(n) * n2, d2, e2>>

\* The integer k as a float.
V(k) == Norm(k, 1, 0)
\* k * 10^e as a float (1e10 is E(1, 10)).
E(k, e) == Norm(k, 1, e)

Neg(x) == <<-x[1], x[2], x[3]>>

\* The decimal order of magnitude of a finite x # 0.
Mag(x) == x[3] + Digits(Abs(x[1])) - Digits(x[2])

Add(x, y) ==
    IF IsNaN(x) \/ IsNaN(y) THEN NaN
    ELSE IF IsInf(x) THEN (IF IsInf(y) /\ x # y THEN NaN ELSE x)
    ELSE IF IsInf(y) THEN y
    ELSE IF x = Zero THEN y
    ELSE IF y = Zero THEN x
    ELSE IF Mag(x) - Mag(y) >= AlignGap THEN x
    ELSE IF Mag(y) - Mag(x) >= AlignGap THEN y
    ELSE LET lo == IF x[3] < y[3] THEN x[3] ELSE y[3]
             g == GCD(x[2], y[2])
             xd == x[2] \div g
             yd == y[2] \div g
         IN  Norm(x[1] * (10 ^ (x[3] - lo)) * yd + y[1] * (10 ^ (y[3] - lo)) * xd,
                  xd * y[2], lo)

Sub(x, y) == Add(x, Neg(y))

\* x with its mantissa chopped to AlignGap decimal digits: the rounding of a
\* float result, at the precision the model carries for the likelihood's
\* scalars.  A value that already has such a mantissa is unchanged.
Round(x) ==
    IF ~IsFinite(x) \/ x = Zero THEN x
    ELSE LET n0 == Abs(x[1])
             up == 9 - Digits(n0)
             n1 == IF up >= 0 THEN n0 * (10 ^ up) ELSE n0 \div 10
             dw == IF Digits(x[2]) > 5 THEN Digits(x[2]) - 5 ELSE 0
             d1 == x[2] \div (10 ^ dw)
             q == n1 \div d1
             cut == IF Digits(q) > AlignGap THEN Digits(q) - AlignGap ELSE 0
         IN  Norm(Sgn(x[1]) * (q \div (10 ^ cut)), 1, x[3] - up - dw + cut)

Mul(x, y) ==
    IF IsNaN(x) \/ IsNaN(y) THEN NaN
    ELSE IF IsInf(x) \/ IsInf(y)
         THEN (IF x = Zero \/ y = Zero THEN NaN
               ELSE IF Sign(x) * Sign(y) > 0 THEN PInf ELSE NInf)
    ELSE Norm(x[1] * y[1], x[2] * y[2], x[3] + y[3])

Div(x, y) ==
    IF IsNaN(x) \/ IsNaN(y) THEN NaN
    ELSE IF IsInf(y) THEN (IF IsInf(x) THEN NaN ELSE Zero)
    ELSE IF y = Zero
         THEN (IF x = Zero THEN NaN ELSE IF Sign(x) > 0 THEN PInf ELSE NInf)
    ELSE IF IsInf(x) THEN (IF Sign(x) * Sign(y) > 0 THEN PInf ELSE NInf)
    ELSE Norm(x[1] * y[2] * Sgn(y[1]), x[2] * Abs(y[1]), x[3] - y[3])

\* x > y as floats compare: false when either is NaN.
Gt(x, y) ==
    /\ ~IsNaN(x)
    /\ ~IsNaN(y)
    /\ x # y
    /\ Sign(Sub(x, y)) > 0

Lt(x, y) == Gt(y, x)
Ge(x, y) == ~IsNaN(x) /\ ~IsNaN(y) /\ (x = y \/ Gt(x, y))
Le(x, y) == Ge(y, x)

\* ------------------------------------------------------ vectors, matrices
\* A vector is a sequence of floats, a matrix a sequence of rows.
Mat(n, m, F(_, _)) == [i \in 1..n |-> [j \in 1..m |-> F(i, j)]]

RECURSIVE SumTo(_, _)
\* F(1) + ... + F(k), added left to right.
SumTo(F(_), k) == IF k = 0 THEN Zero ELSE Add(SumTo(F, k - 1), F(k))

Transpose(M) ==
    LET Tr(i, j) == M[j][i]
    IN  Mat(Len(M[1]), Len(M), Tr)

\* M.dot(K)
Dot(M, K) ==
    LET P(i, j) == LET term(k) == Mul(M[i][k], K[k][j]) IN SumTo(term, Len(K))
    IN  Mat(Len(M), Len(K[1]), P)

MatAdd(M, K) ==
    LET S(i, j) == Add(M[i][j], K[i][j])
    IN  Mat(Len(M), Len(M[1]), S)

MatSub(M, K) ==
    LET S(i, j) == Sub(M[i][j], K[i][j])
    IN  Mat(Len(M), Len(M[1]), S)

MatScale(M, c) ==
    LET S(i, j) == Div(M[i][j], c)
    IN  Mat(Len(M), Len(M[1]), S)

\* u[t-1, np.newaxis].T * u[t-1]: the outer product of a vector with itself.
Outer(v) ==
    LET P(i, j) == Mul(v[i], v[j])
    IN  Mat(Len(v), Len(v), P)

Sandwich_notranspose(M, X) == Dot(Dot(M, X), M)

\* M.dot(X).dot(M.T)
Sandwich(M, X) == Dot(Dot(M, X), Transpose(M))

ZeroM(n) == LET Z(i, j) == Zero IN Mat(n, n, Z)
ZeroV(n) == [j \in 1..n |-> Zero]
\* np.eye(n) scaled by the float c
ScalM(n, c) == LET S(i, j) == IF i = j THEN c ELSE Zero IN Mat(n, n, S)
Eye(n) == ScalM(n, V(1))

\* M without row r and column c.
Minor(M, r, c) ==
    LET n == Len(M)
        F(i, j) == M[IF i < r THEN i ELSE i + 1][IF j < c THEN j ELSE j + 1]
    IN  Mat(n - 1, n - 1, F)

RECURSIVE Det(_)
\* np.linalg.det, by expansion along the first row.
Det(M) ==
    IF Len(M) = 1 THEN M[1][1]
    ELSE LET term(j) == LET c == Mul(M[1][j], Det(Minor(M, 1, j)))
                        IN  IF j % 2 = 1 THEN c ELSE Neg(c)
         IN  SumTo(term, Len(M))

\* np.linalg.inv: the adjugate over the determinant.
Inv(M) ==
    LET n == Len(M)
        d == Det(M)
        F(i, j) == IF n = 1 THEN Div(V(1), d)
                   ELSE LET c == Det(Minor(M, j, i))
                        IN  Div(IF (i + j) % 2 = 0 THEN c ELSE Neg(c), d)
    IN  Mat(n, n, F)

\* The quadratic form u.dot(M).dot(u')
Quad(v, M) ==
    LET row(j) == LET term(k) == Mul(v[k], M[k][j]) IN SumTo(term, Len(v))
        term2(j) == Mul(row(j), v[j])
    IN  SumTo(term2, Len(v))

AnyInf(M) == \E i \in 1..Len(M) : \E j \in 1..Len(M[i]) : IsInf(M[i][j])
AllFinite(M) == \A i \in 1..Len(M) : \A j \in 1..Len(M[i]) : IsFinite(M[i][j])

\* -------------------------------------------------------------------- log
\* ln(k) in units of 1e-4 for an integer k >= 1: k = 2^a * r with 1 <= r < 2,
\* ln(r) = 2 atanh((r-1)/(r+1)) by its series.
RECURSIVE Log2Floor(_)
Log2Floor(k) == IF k < 2 THEN 0 ELSE 1 + Log2Floor(k \div 2)

ILn(k) ==
    LET a == Log2Floor(k)
        p == 2 ^ a
        z == ((k - p) * 10000) \div (k + p)
        z2 == (z * z) \div 10000
        z3 == (z2 * z) \div 10000
        z5 == (z3 * z2) \div 10000
        z7 == (z5 * z2) \div 10000
    IN  a * 6931 + 2 * (z + (z3 \div 3) + (z5 \div 5) + (z7 \div 7))

\* np.log
Log(x) ==
    IF IsNaN(x) THEN NaN
    ELSE IF x = PInf THEN PInf
    ELSE IF x = NInf THEN NaN
    ELSE IF x = Zero THEN NInf
    ELSE IF Sign(x) < 0 THEN NaN
    ELSE Norm(ILn(x[1]) - ILn(x[2]) + x[3] * ILn(10), 10000, 0)

\* --------------------------------------------------------- program constants
\* while (norm > 1e-3) or (i < 1000)
MinIter == 1000
\* The model keeps the square of the Frobenius norm (np.linalg.norm is the
\* root of the sum of squares, and overflows as that sum does): the
\* tolerance 1e-3 and the initial norm 1e3 are squared likewise.
TolSq == E(1, -6)
InitNormSq == E(1, 6)
\* return 1e10
Penalty == E(1, 10)
\* np.linalg.det(H) > 1e20
DetMax == E(1, 20)
\* np.isclose(det, 0): atol = 1e-8, and rtol * |0| = 0
CloseTol == E(1, -8)

\* Iterations of the stationary solve the model follows before it stops
\* exploring a call that has not returned.
StatCap == 1002

\* ------------------------------------------------------------ array access
\* Slot t (0-based, as in the source) of a time-indexed array.
At(X, t) == X[t + 1]
Put(X, t, M) == [X EXCEPT ![t + 1] = M]

\* s[a:b] of a sequence, 0-based and half-open, cut at the end as Python does.
Slice(s, a, b) ==
    LET hi == IF b < Len(s) THEN b ELSE Len(s)
    IN  IF a >= hi THEN <<>> ELSE SubSeq(s, a + 1, hi)

\* M.flatten(): row-major
Flatten(M) ==
    LET n == Len(M)
        m == IF n = 0 THEN 0 ELSE Len(M[1])
    IN  [k \in 1..(n * m) |-> M[((k - 1) \div m) + 1][((k - 1) % m) + 1]]

Reshape_colmajor(v, n) ==
    LET F(i, j) == v[(j - 1) * n + i]
    IN  Mat(n, n, F)

\* v.reshape([n, n]) of a v of n*n elements: row-major
Reshape(v, n) ==
    LET F(i, j) == v[(i - 1) * n + j]
    IN  Mat(n, n, F)

RECURSIVE TrilIndices(_)
\* np.tril_indices(n): the pairs (i, j), j <= i, row by row
TrilIndices(n) ==
    IF n = 0 THEN <<>>
    ELSE TrilIndices(n - 1) \o [j \in 1..n |-> <<n, j>>]

\* The place of (i, j), j <= i, in TrilIndices.
TrilPos(i, j) == ((i * (i - 1)) \div 2) + j

\* --------------------------------------------------------- parameter codec
\* convert_theta_to_abc raises when a reshape gets a slice of the wrong size
\* or when the tail cannot be broadcast to the n(n+1)/2 triangular places:
\* numpy broadcasts a tail of exactly one element to all of them.
convert_theta_to_abc_raises(theta, n) ==
    LET tail == Slice(theta, 2 * n * n, Len(theta))
    IN  \/ Len(Slice(theta, 0, n * n)) # n * n
        \/ Len(Slice(theta, n * n, 2 * n * n)) # n * n
        \/ ~(Len(tail) = Len(TrilIndices(n)) \/ Len(tail) = 1)

convert_theta_to_abc(theta, n) ==
    LET tail == Slice(theta, 2 * n * n, Len(theta))
        c(i, j) == IF j > i THEN Zero
                   ELSE IF Len(tail) = 1 THEN tail[1]
                   ELSE tail[TrilPos(i, j)]
    IN  <<Reshape(Slice(theta, 0, n * n), n),
          Reshape(Slice(theta, n * n, 2 * n * n), n),
          Mat(n, n, c)>>

convert_theta_to_ab_raises(theta, n) ==
    \/ Len(Slice(theta, 0, n * n)) # n * n
    \/ Len(Slice(theta, n * n, 2 * n * n)) # n * n

convert_theta_to_ab(theta, n) ==
    <<Reshape(Slice(theta, 0, n * n), n),
      Reshape(Slice(theta, n * n, 2 * n * n), n)>>

convert_abc_to_theta(A0, B0, C0) ==
    LET idx == TrilIndices(Len(C0))
    IN  Flatten(A0) \o Flatten(B0) \o [k \in 1..Len(idx) |-> C0[idx[k][1]][idx[k][2]]]

\* ------------------------------------------------------ covariance recursion
estimate_H0_by_n(u0) ==
    LET P(i, j) == LET term(s) == Mul(u0[s][i], u0[s][j]) IN SumTo(term, Len(u0))
    IN  MatScale(Mat(Len(u0[1]), Len(u0[1]), P), V(Len(u0[1])))

\* u.T.dot(u) / T
estimate_H0(u0) ==
    LET P(i, j) == LET term(s) == Mul(u0[s][i], u0[s][j]) IN SumTo(term, Len(u0))
    IN  MatScale(Mat(Len(u0[1]), Len(u0[1]), P), V(Len(u0)))

\* C.dot(C.T) + A.dot(Hold).dot(A.T) + B.dot(Hold).dot(B.T)
StatMap(A0, B0, C0, X) ==
    MatAdd(MatAdd(Dot(C0, Transpose(C0)), Sandwich(A0, X)), Sandwich(B0, X))

\* np.linalg.norm(Hnew - Hold), squared
NormSq(M) ==
    LET all == Flatten(M)
        term(k) == Mul(all[k], all[k])
    IN  SumTo(term, Len(all))

StatContinue_and(nsq, k) == Gt(nsq, TolSq) /\ k < MinIter

\* (norm > 1e-3) or (i < 1000)
StatContinue(nsq, k) == Gt(nsq, TolSq) \/ k < MinIter

\* The leading principal minors of M, what a Cholesky factorisation needs
\* positive.
Leading(M, k) == LET F(i, j) == M[i][j] IN Mat(k, k, F)

IsSymmetric(M) == M = Transpose(M)

IsPD(M) ==
    /\ AllFinite(M)
    /\ IsSymmetric(M)
    /\ \A k \in 1..Len(M) : Gt(Det(Leading(M, k)), Zero)

\* sp.linalg.cholesky(H[t], 1) raises on a non-finite matrix and on one whose
\* lower triangle is not that of a positive-definite matrix.
cholesky_raises(M) ==
    LET L(i, j) == IF j <= i THEN M[i][j] ELSE M[j][i]
        low == Mat(Len(M), Len(M), L)
    IN  ~(AllFinite(M) /\ \A k \in 1..Len(M) : Gt(Det(Leading(low, k)), Zero))

\* H[t] = C.dot(C.T); H[t] += A.dot(u[t-1]'u[t-1]).dot(A.T);
\* H[t] += B.dot(H[t-1]).dot(B.T)
simulate_BEKK_H(A0, B0, C0, u0, H0, t0) ==
    Put(H0, t0, MatAdd(MatAdd(Dot(C0, Transpose(C0)), Sandwich(A0, Outer(At(u0, t0 - 1)))),
                       Sandwich(B0, At(H0, t0 - 1))))

\* hvar[i] = intercept + a_mat.dot(innov2).dot(a_mat.T)
\*           + b_mat.dot(hvar[i-1]).dot(b_mat.T)
simulate_bekk_hvar(A0, B0, C0, u0, H0, t0) ==
    Put(H0, t0, MatAdd(MatAdd(Dot(C0, Transpose(C0)), Sandwich(A0, Outer(At(u0, t0 - 1)))),
                       Sandwich(B0, At(H0, t0 - 1))))

likelihood_H_aliased(A0, B0, u0, H0, t0) ==
    LET a == MatAdd(At(H0, 0), Sandwich(A0, MatSub(Outer(At(u0, t0 - 1)), At(H0, 0))))
        s1 == Put(Put(H0, t0, a), 0, a)
        b == MatAdd(a, Sandwich(B0, MatSub(At(s1, t0 - 1), a)))
    IN  Put(Put(s1, t0, b), 0, b)

\* H[t] = H[0]; H[t] += A.dot(u[t-1]'u[t-1] - H[0]).dot(A.T);
\* H[t] += B.dot(H[t-1] - H[0]).dot(B.T).  H[t] = H[0] copies the values of
\* slot 0 into slot t of the T x n x n array.
likelihood_H(A0, B0, u0, H0, t0) ==
    LET s1 == Put(H0, t0, At(H0, 0))
        s2 == Put(s1, t0, MatAdd(At(s1, t0),
                  Sandwich(A0, MatSub(Outer(At(u0, t0 - 1)), At(s1, 0)))))
    IN  Put(s2, t0, MatAdd(At(s2, t0),
                  Sandwich(B0, MatSub(At(s2, t0 - 1), At(s2, 0)))))

\* -------------------------------------------------------------- likelihood
AbsV(x) == IF Sign(x) < 0 THEN Neg(x) ELSE x

\* np.isclose(x, 0)
IsClose0(x) == IsFinite(x) /\ Le(AbsV(x), CloseTol)

contribution_bad(H0) ==
    \/ AnyInf(H0)
    \/ IsClose0(Det(H0))
    \/ Gt(Det(H0), DetMax)
    \/ Lt(Det(H0), Zero)

\* np.log(det(H)) + u.dot(inv(H)).dot(u'), each float result rounded
contribution_value(u0, H0) ==
    Round(Add(Round(Log(Round(Det(H0)))), Round(Quad(u0, Inv(H0)))))

contribution(u0, H0) ==
    IF contribution_bad(H0) THEN Penalty ELSE contribution_value(u0, H0)

\* if np.isinf(f): return 1e10, else: return f
likelihood_return(f0) == IF IsInf(f0) THEN Penalty ELSE f0

\* ------------------------------------------------- simulate_bekk's H(0)
RECURSIVE FixedPoint(_, _, _, _, _)
\* Iterated substitution until the change drops below the tolerance or the
\* iteration cap is reached.
FixedPoint(A0, B0, C0, X, k) ==
    LET Y == StatMap(A0, B0, C0, X)
    IN  IF k + 1 >= MinIter \/ ~Gt(NormSq(MatSub(Y, X)), TolSq) THEN Y
        ELSE FixedPoint(A0, B0, C0, Y, k + 1)

\* param.unconditional_var(): the stationary covariance of the process
unconditional_var(A0, B0, C0) == FixedPoint(A0, B0, C0, Eye(Len(A0)), 0)

\* ------------------------------------------------------------ explored inputs
\* The identity with entry (1,2) set to 1 and entry (2,2) to -1: its square
\* is the identity, it is not orthogonal.
Invol(n) ==
    LET F(i, j) == IF i = 2 /\ j = 2 THEN V(-1)
                   ELSE IF i = j \/ (i = 1 /\ j = 2) THEN V(1) ELSE Zero
    IN  Mat(n, n, F)

\* Ones on the superdiagonal.
Nilp(n) == LET F(i, j) == IF j = i + 1 THEN V(1) ELSE Zero IN Mat(n, n, F)

\* Entries s+1, s+2, ... row by row: all different.
Tag(n, s) == LET F(i, j) == V(s + (i - 1) * n + j) IN Mat(n, n, F)

LowerTag(n, s) ==
    LET F(i, j) == IF j <= i THEN V(s + (i - 1) * n + j) ELSE Zero
    IN  Mat(n, n, F)

IsLowerTriangular(M) ==
    \A i \in 1..Len(M) : \A j \in 1..Len(M) : j > i => M[i][j] = Zero

Dims == 1..MaxN

CodecA(n) == {Tag(n, 0), Tag(n, 40), ZeroM(n)}
CodecC(n) == {LowerTag(n, 20), Eye(n), Tag(n, 20)}
RawThetas(n) ==
    {[k \in 1..len |-> V(s + k)] :
        len \in 0..(2 * n * n + ((n * (n + 1)) \div 2) + 2), s \in {0, 50}}

SimTriples(n) ==
    { <<ZeroM(n), ZeroM(n), Eye(n)>>,
      <<ZeroM(n), ZeroM(n), LowerTag(n, 0)>>,
      <<Nilp(n), Nilp(n), Eye(n)>>,
      <<Nilp(n), ZeroM(n), LowerTag(n, 0)>>,
      <<Invol(n), ZeroM(n), ZeroM(n)>>,
      <<ScalM(n, V(3)), Eye(n), ZeroM(n)>>,
      <<Eye(n), ZeroM(n), Eye(n)>> }

SimThetas(n) == {convert_abc_to_theta(tr[1], tr[2], tr[3]) : tr \in SimTriples(n)}

BekkTriples(n) ==
    { <<ZeroM(n), ZeroM(n), Eye(n)>>,
      <<Nilp(n), Nilp(n), Eye(n)>>,
      <<Nilp(n), ZeroM(n), LowerTag(n, 0)>>,
      <<ZeroM(n), Nilp(n), LowerTag(n, 0)>> }

\* The vectors L e(t) of a step: the lower Cholesky factor L of a positive
\* definite H(t) is invertible, so as e(t) ranges over R^n so does L e(t).
DrawSet(n) ==
    { [j \in 1..n |-> V(1)],
      [j \in 1..n |-> IF j = 1 THEN V(-1) ELSE Zero],
      [j \in 1..n |-> V(j - 2)] }

LikPairs(n) ==
    { <<ZeroM(n), ZeroM(n)>>,
      <<Eye(n), ZeroM(n)>>,
      <<ZeroM(n), Eye(n)>>,
      <<Invol(n), Nilp(n)>>,
      <<ScalM(n, Div(V(1), V(2))), Eye(n)>>,
      <<ScalM(n, E(1, 200)), ZeroM(n)>> }

LikThetas(n) == {Flatten(pr[1]) \o Flatten(pr[2]) : pr \in LikPairs(n)}

UKinds == 0..4

\* Entry j of u(t) in the series of kind k.
UVal(k, n, t0, j) ==
    CASE k = 0 -> Zero
      [] k = 1 -> IF (t0 % n) + 1 = j THEN V(1) ELSE Zero
      [] k = 2 -> V(1)
      [] k = 3 -> V(t0 + j - 1)
      [] OTHER -> IF t0 % 2 = 0 THEN V(j) ELSE V(-j)

USeries(len, n) == {[s \in 1..len |-> [j \in 1..n |-> UVal(k, n, s - 1, j)]] : k \in UKinds}

ContribH(n) ==
    { Eye(n), ScalM(n, V(-1)), ZeroM(n), Tag(n, 0), Invol(n),
      MatAdd(Eye(n), Mat(n, n, LAMBDA i, j : V(1))),
      ScalM(n, E(1, 10)), ScalM(n, E(1, 20)), ScalM(n, E(1, -5)),
      [Eye(n) EXCEPT ![1][1] = NaN], [Eye(n) EXCEPT ![1][1] = PInf],
      [Eye(n) EXCEPT ![n][n] = NInf] }

ContribU(n) == {ZeroV(n), [j \in 1..n |-> V(1)], [j \in 1..n |-> V(j - 2)]}

\* np.empty((T, n, n)): slots the code writes before it reads them.
EmptyPath(len, n) == [s \in 1..len |-> Mat(n, n, LAMBDA i, j : NaN)]

InitU_ones(len, n) == [s \in 1..len |-> [j \in 1..n |-> V(1)]]

\* u = np.zeros((T, n))
InitU(len, n) == [s \in 1..len |-> ZeroV(n)]

\* --------------------------------------------------------------------- state
VARIABLES
    pc,         \* where the call is
    n,          \* dimension
    T,          \* length of the series (T, nobs)
    theta,      \* flat parameter vector
    A, B, C,    \* parameter matrices
    u,          \* innovations u(0..T-1)
    H,          \* covariance path H(0..T-1)
    t,          \* loop index of the recursion
    f,          \* accumulated objective
    i,          \* stationary_H: iteration counter
    normsq,     \* stationary_H: norm, squared
    Hold,       \* stationary_H: previous iterate
    Hnew,       \* stationary_H: current iterate
    ret,        \* value returned
    theta_in,   \* theta as passed to likelihood
    u_in        \* u as passed to likelihood

vars == <<pc, n, T, theta, A, B, C, u, H, t, f, i, normsq, Hold, Hnew, ret,
          theta_in, u_in>>

NoLoop == t = 0 /\ f = Zero /\ i = 0 /\ normsq = InitNormSq /\ Hold = <<>>
          /\ Hnew = <<>> /\ ret = <<>>

InitCodec ==
    /\ n \in Dims
    /\ \/ /\ pc = "codec"
          /\ A \in CodecA(n) /\ B \in CodecA(n) /\ C \in CodecC(n)
          /\ theta = <<>>
       \/ /\ pc = "raw"
          /\ A = <<>> /\ B = <<>> /\ C = <<>>
          /\ theta \in RawThetas(n)
    /\ T = 0 /\ u = <<>> /\ H = <<>> /\ theta_in = <<>> /\ u_in = <<>>
    /\ NoLoop

InitContrib ==
    /\ pc = "contrib"
    /\ n \in Dims
    /\ T = 1
    /\ \E v \in ContribU(n) : u = <<v>>
    /\ \E M \in ContribH(n) : H = <<M>>
    /\ theta = <<>> /\ A = <<>> /\ B = <<>> /\ C = <<>>
    /\ theta_in = <<>> /\ u_in = <<>>
    /\ NoLoop

InitLik ==
    /\ pc = "lik"
    /\ n \in Dims
    /\ T \in 1..MaxT
    /\ theta \in LikThetas(n)
    /\ u \in USeries(T, n)
    /\ theta_in = theta /\ u_in = u
    /\ A = <<>> /\ B = <<>> /\ C = <<>> /\ H = <<>>
    /\ NoLoop

\* simulate_BEKK sets T = 1000; the model follows the first MaxT steps.
InitSim ==
    /\ pc = "sim"
    /\ n \in Dims
    /\ T = MaxT
    /\ theta \in SimThetas(n)
    /\ A = <<>> /\ B = <<>> /\ C = <<>> /\ u = <<>> /\ H = <<>>
    /\ theta_in = <<>> /\ u_in = <<>>
    /\ NoLoop

InitBekk ==
    /\ pc = "bekk"
    /\ n \in Dims
    /\ T \in 1..MaxT
    /\ \E tr \in BekkTriples(n) : A = tr[1] /\ B = tr[2] /\ C = tr[3]
    /\ theta = <<>> /\ u = <<>> /\ H = <<>>
    /\ theta_in = <<>> /\ u_in = <<>>
    /\ NoLoop

Init == InitCodec \/ InitContrib \/ InitLik \/ InitSim \/ InitBekk

\* ------------------------------------------------------------------- codec
Encode ==
    /\ pc = "codec"
    /\ theta' = convert_abc_to_theta(A, B, C)
    /\ pc' = "encoded"
    /\ UNCHANGED <<n, T, A, B, C, u, H, t, f, i, normsq, Hold, Hnew, ret, theta_in, u_in>>

Decode ==
    /\ pc \in {"encoded", "raw"}
    /\ IF convert_theta_to_abc_raises(theta, n)
       THEN /\ pc' = (IF pc = "raw" THEN "raw_error" ELSE "decode_error")
            /\ ret' = ret
       ELSE /\ pc' = (IF pc = "raw" THEN "raw_decoded" ELSE "decoded")
            /\ ret' = convert_theta_to_abc(theta, n)
    /\ UNCHANGED <<n, T, theta, A, B, C, u, H, t, f, i, normsq, Hold, Hnew, theta_in, u_in>>

\* ------------------------------------------------------------ contribution
Contribute ==
    /\ pc = "contrib"
    /\ ret' = contribution(u[1], H[1])
    /\ pc' = "contrib_done"
    /\ UNCHANGED <<n, T, theta, A, B, C, u, H, t, f, i, normsq, Hold, Hnew, theta_in, u_in>>

\* -------------------------------------------------------------- likelihood
\* T, n = u.shape; A, B = convert_theta_to_ab(theta, n); H = np.empty(...);
\* H[0] = estimate_H0(u); f = contribution(u[0], H[0])
LikBegin ==
    /\ pc = "lik"
    /\ IF convert_theta_to_ab_raises(theta, n)
       THEN /\ pc' = "lik_error"
            /\ UNCHANGED <<A, B, H, f, t>>
       ELSE /\ A' = convert_theta_to_ab(theta, n)[1]
            /\ B' = convert_theta_to_ab(theta, n)[2]
            /\ H' = Put(EmptyPath(T, n), 0, estimate_H0(u))
            /\ f' = contribution(At(u, 0), At(H', 0))
            /\ t' = 1
            /\ pc' = "lik_loop"
    /\ UNCHANGED <<n, T, theta, C, u, i, normsq, Hold, Hnew, ret, theta_in, u_in>>

\* for t in range(1, T): the recursion and f += contribution(u[t], H[t])
LikStep ==
    /\ pc = "lik_loop"
    /\ t < T
    /\ H' = likelihood_H(A, B, u, H, t)
    /\ f' = Round(Add(f, contribution(At(u, t), At(H', t))))
    /\ t' = t + 1
    /\ UNCHANGED <<pc, n, T, theta, A, B, C, u, i, normsq, Hold, Hnew, ret, theta_in, u_in>>

LikReturn ==
    /\ pc = "lik_loop"
    /\ t >= T
    /\ ret' = likelihood_return(f)
    /\ pc' = "lik_done"
    /\ UNCHANGED <<n, T, theta, A, B, C, u, H, t, f, i, normsq, Hold, Hnew, theta_in, u_in>>

\* ------------------------------------------------------------ simulate_BEKK
\* A, B, C = convert_theta_to_abc(theta, n); H = np.empty(...); u = zeros;
\* then the call of stationary_H: i, norm = 0, 1e3; Hold = np.eye(n).
\* The draws e (line 24) are read one per step, and are drawn there.
SimBegin ==
    /\ pc = "sim"
    /\ IF convert_theta_to_abc_raises(theta, n)
       THEN /\ pc' = "sim_error"
            /\ UNCHANGED <<A, B, C, u, H, i, normsq, Hold>>
       ELSE /\ A' = convert_theta_to_abc(theta, n)[1]
            /\ B' = convert_theta_to_abc(theta, n)[2]
            /\ C' = convert_theta_to_abc(theta, n)[3]
            /\ H' = EmptyPath(T, n)
            /\ u' = InitU(T, n)
            /\ i' = 0
            /\ normsq' = InitNormSq
            /\ Hold' = Eye(n)
            /\ pc' = "stat_loop"
    /\ UNCHANGED <<n, T, theta, t, f, Hnew, ret, theta_in, u_in>>

\* One pass of the body of stationary_H's while loop.
StatIter ==
    /\ pc = "stat_loop"
    /\ StatContinue(normsq, i)
    /\ i < StatCap
    /\ Hnew' = StatMap(A, B, C, Hold)
    /\ normsq' = NormSq(MatSub(Hnew', Hold))
    /\ Hold' = Hnew'
    /\ i' = i + 1
    /\ UNCHANGED <<pc, n, T, theta, A, B, C, u, H, t, f, ret, theta_in, u_in>>

\* return Hnew
StatReturn ==
    /\ pc = "stat_loop"
    /\ ~StatContinue(normsq, i)
    /\ ret' = Hnew
    /\ pc' = "stat_done"
    /\ UNCHANGED <<n, T, theta, A, B, C, u, H, t, f, i, normsq, Hold, Hnew, theta_in, u_in>>

\* H[0] = stationary_H(A, B, C)
SimSetH0 ==
    /\ pc = "stat_done"
    /\ H' = Put(H, 0, ret)
    /\ t' = 1
    /\ pc' = "sim_loop"
    /\ UNCHANGED <<n, T, theta, A, B, C, u, f, i, normsq, Hold, Hnew, ret, theta_in, u_in>>

\* for t in range(1, T): H[t] = ...; u[t] = cholesky(H[t], 1).dot(e[t])
SimStep ==
    /\ pc = "sim_loop"
    /\ t < T
    /\ H' = simulate_BEKK_H(A, B, C, u, H, t)
    /\ IF cholesky_raises(At(H', t))
       THEN /\ pc' = "sim_error"
            /\ UNCHANGED <<u, t>>
       ELSE /\ \E w \in DrawSet(n) : u' = Put(u, t, w)
            /\ t' = t + 1
            /\ pc' = pc
    /\ UNCHANGED <<n, T, theta, A, B, C, f, i, normsq, Hold, Hnew, ret, theta_in, u_in>>

\* return u, H
SimReturn ==
    /\ pc = "sim_loop"
    /\ t >= T
    /\ ret' = <<u, H>>
    /\ pc' = "sim_done"
    /\ UNCHANGED <<n, T, theta, A, B, C, u, H, t, f, i, normsq, Hold, Hnew, theta_in, u_in>>

\* ------------------------------------------------------------ simulate_bekk
\* hvar = np.empty(...); innov = np.zeros(...);
\* hvar[0] = param.unconditional_var()
BekkBegin ==
    /\ pc = "bekk"
    /\ u' = InitU(T, n)
    /\ H' = Put(EmptyPath(T, n), 0, unconditional_var(A, B, C))
    /\ t' = 1
    /\ pc' = "bekk_loop"
    /\ UNCHANGED <<n, T, theta, A, B, C, f, i, normsq, Hold, Hnew, ret, theta_in, u_in>>

\* for i in range(1, nobs): hvar[i] = ...; innov[i] = hvar12.dot(error[i])
BekkStep ==
    /\ pc = "bekk_loop"
    /\ t < T
    /\ H' = simulate_bekk_hvar(A, B, C, u, H, t)
    /\ IF cholesky_raises(At(H', t))
       THEN /\ pc' = "bekk_error"
            /\ UNCHANGED <<u, t>>
       ELSE /\ \E w \in DrawSet(n) : u' = Put(u, t, w)
            /\ t' = t + 1
            /\ pc' = pc
    /\ UNCHANGED <<n, T, theta, A, B, C, f, i, normsq, Hold, Hnew, ret, theta_in, u_in>>

\* return innov, hvar
BekkReturn ==
    /\ pc = "bekk_loop"
    /\ t >= T
    /\ ret' = <<u, H>>
    /\ pc' = "bekk_done"
    /\ UNCHANGED <<n, T, theta, A, B, C, u, H, t, f, i, normsq, Hold, Hnew, theta_in, u_in>>

\* ------------------------------------------------------------ specifications
NextCodec == Encode \/ Decode
NextContrib == Contribute
NextLik == LikBegin \/ LikStep \/ LikReturn
NextSim == SimBegin \/ StatIter \/ StatReturn \/ SimSetH0 \/ SimStep \/ SimReturn
NextBekk == BekkBegin \/ BekkStep \/ BekkReturn

Next == NextCodec \/ NextContrib \/ NextLik \/ NextSim \/ NextBekk

Spec == Init /\ [][Next]_vars
SpecCodec == InitCodec /\ [][NextCodec]_vars
SpecContrib == InitContrib /\ [][NextContrib]_vars
SpecLik == InitLik /\ [][NextLik]_vars
SpecSim == (InitSim \/ InitBekk) /\ [][NextSim \/ NextBekk]_vars
SpecPath == (InitSim \/ InitLik) /\ [][NextSim \/ NextLik]_vars

\* ------------------------------------------------------------------- claims
ThetaLen(k) == 2 * k * k + ((k * (k + 1)) \div 2)

\* C1: likelihood(theta, u) never raises and returns a finite number that is
\* at most 1e10, whatever the finite theta and the series u.
C1_Total ==
    /\ pc # "lik_error"
    /\ pc = "lik_done" => (IsFinite(ret) /\ Le(ret, Penalty))

\* C2: decoding the encoding of (A, B, C), C lower triangular, succeeds and
\* returns (A, B, C) entry for entry.
C2_RoundTrip ==
    (pc \in {"decoded", "decode_error"} /\ IsLowerTriangular(C))
        => (pc = "decoded" /\ ret = <<A, B, C>>)

C2_Witness ==
    /\ pc = "decoded"
    /\ n = 2
    /\ A = Tag(2, 0) /\ B = Tag(2, 40) /\ C = LowerTag(2, 20)
    /\ ret[3][2][1] = V(23)

\* C3: convert_theta_to_abc(theta, n) fails exactly when the length of theta
\* is not 2n^2 + n(n+1)/2.
C3_ShapeError ==
    pc \in {"raw_decoded", "raw_error"}
        => (pc = "raw_error" <=> Len(theta) # ThetaLen(n))

\* C4: stationary_H stops once the cap of 1000 iterations is reached: the
\* body of its loop never runs more than 1000 times.
C4_IterationCap == i <= MinIter

\* C5: contribution(u, H) is the penalty 1e10 when H is not positive
\* definite, has a non-finite entry or has det(H) >= 1e20, and
\* log(det(H)) + u' H^-1 u otherwise.
C5_Contribution ==
    pc = "contrib_done"
        => ret = (IF ~IsPD(H[1]) \/ ~AllFinite(H[1]) \/ Ge(Det(H[1]), DetMax)
                  THEN Penalty
                  ELSE contribution_value(u[1], H[1]))

\* The sample second moment of a series: entry (i, j) is the sum over s of
\* u(s)_i u(s)_j, over the length of the series.
SecondMoment(series) ==
    LET P(a, b) == LET term(s) == Mul(series[s][a], series[s][b])
                   IN  Div(SumTo(term, Len(series)), V(Len(series)))
    IN  Mat(Len(series[1]), Len(series[1]), P)

\* C6: with A = B = 0 every H(t) computed inside likelihood is the sample
\* second moment u'u/T of the whole series.
C6_WhiteNoise ==
    (pc \in {"lik_loop", "lik_done"} /\ A = ZeroM(n) /\ B = ZeroM(n))
        => \A s \in 0..(t - 1) : At(H, s) = SecondMoment(u_in)

C6_Witness ==
    /\ pc = "lik_done"
    /\ A = ZeroM(n) /\ B = ZeroM(n)
    /\ n = 2 /\ T = MaxT /\ t = T
    /\ At(H, T - 1) # ZeroM(n)
    /\ At(u, 0) # At(u, 1)

\* The slots of the covariance path written so far.
Written ==
    IF pc \in {"lik_loop", "lik_done", "sim_loop", "sim_done"} THEN 0..(t - 1)
    ELSE IF pc = "sim_error" /\ H # <<>> THEN 0..t
    ELSE {}

\* C7: every matrix of the covariance path, in simulation and in estimation,
\* equals its transpose (as long as the arithmetic is exact: no entry has
\* overflowed).
C7_Symmetric ==
    /\ \A s \in Written : AllFinite(At(H, s)) => IsSymmetric(At(H, s))
    /\ (pc = "stat_loop" /\ i > 0 /\ AllFinite(Hnew)) => IsSymmetric(Hnew)

C7_Witness ==
    /\ pc = "sim_done"
    /\ n = 2
    /\ A = Nilp(n)
    /\ AllFinite(At(H, T - 1))
    /\ At(H, T - 1)[1][2] # Zero
    /\ At(u, T - 1) # ZeroV(n)

\* C8: a call of stationary_H that returns has run its loop body at least
\* 1000 times, and returns the iterate of the last pass.
C8_MinIterations ==
    pc = "stat_done" => (i >= MinIter /\ ret = Hnew /\ ret = Hold)

C8_Witness ==
    /\ pc = "stat_done"
    /\ A = ZeroM(n) /\ B = ZeroM(n)
    /\ i = MinIter
    /\ normsq = Zero
    /\ ret = Dot(C, Transpose(C))

\* H(s) as the simulators state it, from u(s-1) and H(s-1).
SimRecursion(s) ==
    MatAdd(MatAdd(Dot(C, Transpose(C)), Sandwich(A, Outer(At(u, s - 1)))),
           Sandwich(B, At(H, s - 1)))

C10_Pure ==
    pc \in {"lik_loop", "lik_done"}
        => /\ theta = theta_in
           /\ u = u_in
           /\ At(H, 0) = estimate_H0(u_in)

C10_Witness ==
    /\ pc = "lik_done"
    /\ T >= 2
    /\ AllFinite(At(H, 1))
    /\ At(H, 1) # At(H, 0)
    /\ ret # Penalty
=============================================================================
